---- MODULE Spec2Model ----
\* Verification model of the LINE-bot subscriber registry and broadcast
\* dispatch of src/main.py: the users.txt store (read_user_ids, save_user_id,
\* remove_user_id), the administrative endpoints and the broadcast loop.
\*
\* Text is modelled as sequences of one-character strings, so that writing a
\* record (user_id + "\n") and reading it back (line split, strip, blank
\* filter) are computed as the code computes them.
EXTENDS Integers, Sequences, FiniteSets, TLC

\* ------------------------------------------------------------------ bounds
\* Number of distinct platform-issued identifiers the webhook delivers.
NumUsers == 3
\* Number of callers (server threads or worker processes) running at once.
NumProcs == 2
\* Largest membership the store holds when the concurrent callers start.
MaxInit == 2

\* ------------------------------------------------------------- text basics
NL == "\n"
SP == " "
\* Characters str.strip() removes (the ASCII whitespace of Python).
Whitespace == {" ", "\t", "\n", "\r", "\f"}

Range(s) == {s[i] : i \in 1..Len(s)}

\* Platform-issued identifiers: "U" followed by a digit string, no whitespace.
Digit(i) == CASE i = 0 -> "0" [] i = 1 -> "1" [] i = 2 -> "2" [] i = 3 -> "3"
              [] i = 4 -> "4" [] i = 5 -> "5" [] i = 6 -> "6" [] i = 7 -> "7"
              [] i = 8 -> "8" [] OTHER -> "9"
Uid(i) == <<"U", Digit(i)>>
UserIds == {Uid(i) : i \in 1..NumUsers}
\* The path parameter of DELETE /users/{user_id} is any string the client
\* sends: the issued identifiers, one of them with a leading blank, and an
\* identifier the platform never issued.
PathIds == UserIds \cup {<<SP>> \o Uid(1), Uid(0)}

\* USERS_FILE, the path of the backing file (one file, named by a constant).
USERS_FILE == "users.txt"

VARIABLES
    users_txt,   \* the file USERS_FILE: [exists, data], data its characters
    hist,        \* the last two completed calls, oldest first
    procs,       \* concurrent callers: each one's position and local variables
    file0        \* the file as it was when the concurrent callers started

vars == <<users_txt, hist, procs, file0>>

\* ---------------------------------------------------------- file primitives
\* Path(USERS_FILE).touch() when the file is missing (lines 54-57).
ensure_users_file_exists(fs) ==
    IF ~fs.exists THEN [exists |-> TRUE, data |-> <<>>] ELSE fs

\* Index of the end of the line that starts at or before i in a non-empty
\* text: the first "\n" from i on, or the last character when there is none.
RECURSIVE LineEndFrom(_, _)
LineEndFrom(d, i) ==
    IF i >= Len(d) \/ d[i] = NL THEN i ELSE LineEndFrom(d, i + 1)
LineEnd(d) == LineEndFrom(d, 1)

\* Iterating a text file: the lines, each with its terminator.
RECURSIVE FileLines(_)
FirstLineAndRest(d, n) == <<SubSeq(d, 1, n)>> \o FileLines(SubSeq(d, n + 1, Len(d)))
FileLines(d) == IF d = <<>> THEN <<>> ELSE FirstLineAndRest(d, LineEnd(d))

\* str.strip(): drop leading and trailing whitespace.
RECURSIVE lstrip(_)
lstrip(s) == IF s # <<>> /\ Head(s) \in Whitespace THEN lstrip(Tail(s)) ELSE s
RECURSIVE rstrip(_)
rstrip(s) ==
    IF s # <<>> /\ s[Len(s)] \in Whitespace THEN rstrip(SubSeq(s, 1, Len(s) - 1)) ELSE s
strip(s) == rstrip(lstrip(s))

\* [line.strip() for line in f if line.strip()]  (line 66)
KeepIfNotBlank(stripped) == IF stripped # <<>> THEN <<stripped>> ELSE <<>>
RECURSIVE StripLines(_)
StripLines(ls) ==
    IF ls = <<>> THEN <<>>
    ELSE KeepIfNotBlank(strip(Head(ls))) \o StripLines(Tail(ls))
ParseUsers(d) == StripLines(FileLines(d))

\* read_user_ids(): the list read from the file as ensure_users_file_exists
\* leaves it.
read_user_ids(fs) == ParseUsers(ensure_users_file_exists(fs).data)

\* A write that replaces the file instead of adding to it (mode "w" for "a").
AppendWrite_replacing(d, rec) == rec

\* open(USERS_FILE, "a"); f.write(rec); close: the record leaves the buffer in
\* one write with O_APPEND, which lands at the end of the file as it is then.
AppendWrite(d, rec) == d \o rec

\* open(USERS_FILE, "w") truncates; the buffered records leave in one write at
\* the writer's own offset 0 on close, over whatever is in the file by then.
WriteAtStart(d, recs) == recs \o SubSeq(d, Len(recs) + 1, Len(d))

\* The record written for one identifier: user_id + "\n".
Record(user_id) == user_id \o <<NL>>

\* A rewrite that writes the records last to first.
RECURSIVE Encode_reversed(_)
Encode_reversed(users) ==
    IF users = <<>> THEN <<>> ELSE Encode_reversed(Tail(users)) \o Record(Head(users))

\* for user in users: f.write(user + "\n")  (lines 96-97)
RECURSIVE Encode(_)
Encode(users) ==
    IF users = <<>> THEN <<>> ELSE Record(Head(users)) \o Encode(Tail(users))

\* list.remove(x): drop the first occurrence of x.
RECURSIVE ListRemove(_, _)
ListRemove(users, x) ==
    IF users = <<>> THEN <<>>
    ELSE IF Head(users) = x THEN Tail(users)
    ELSE <<Head(users)>> \o ListRemove(Tail(users), x)

\* ------------------------------------------------------- store operations
\* The storage operations a call performs, in order.
TouchIo(fs) == IF fs.exists THEN <<>> ELSE <<"touch">>

\* save_user_id without the membership test of line 77.
save_user_id_unchecked(fs, user_id) ==
    LET fs1 == ensure_users_file_exists(fs)
    IN  [ret |-> TRUE,
         fs  |-> [fs1 EXCEPT !.data = AppendWrite(fs1.data, Record(user_id))],
         io  |-> TouchIo(fs) \o <<"read", "append">>]

\* save_user_id that writes the membership back when the identifier exists.
save_user_id_rewrites(fs, user_id) ==
    LET fs1 == ensure_users_file_exists(fs)
        users == ParseUsers(fs1.data)
    IN  IF user_id \notin Range(users)
        THEN [ret |-> TRUE,
              fs  |-> [fs1 EXCEPT !.data = AppendWrite(fs1.data, Record(user_id))],
              io  |-> TouchIo(fs) \o <<"read", "append">>]
        ELSE [ret |-> FALSE,
              fs  |-> [fs1 EXCEPT !.data = Encode(users)],
              io  |-> TouchIo(fs) \o <<"read", "truncate", "write">>]

\* save_user_id(user_id) run alone: [ret, fs, io].
save_user_id(fs, user_id) ==
    LET fs1 == ensure_users_file_exists(fs)
        existing_users == Range(ParseUsers(fs1.data))
    IN  IF user_id \notin existing_users
        THEN [ret |-> TRUE,
              fs  |-> [fs1 EXCEPT !.data = AppendWrite(fs1.data, Record(user_id))],
              io  |-> TouchIo(fs) \o <<"read", "append">>]
        ELSE [ret |-> FALSE, fs |-> fs1, io |-> TouchIo(fs) \o <<"read">>]

\* remove_user_id that strips the identifier it is given before looking it up.
remove_user_id_stripped(fs, user_id) ==
    LET fs1 == ensure_users_file_exists(fs)
        users == ParseUsers(fs1.data)
    IN  IF strip(user_id) \in Range(users)
        THEN [ret |-> TRUE,
              fs  |-> [fs1 EXCEPT !.data = Encode(ListRemove(users, strip(user_id)))],
              io  |-> TouchIo(fs) \o <<"read", "truncate", "write">>]
        ELSE [ret |-> FALSE, fs |-> fs1, io |-> TouchIo(fs) \o <<"read">>]

\* remove_user_id(user_id) run alone: [ret, fs, io].
remove_user_id(fs, user_id) ==
    LET fs1 == ensure_users_file_exists(fs)
        users == ParseUsers(fs1.data)
    IN  IF user_id \in Range(users)
        THEN [ret |-> TRUE,
              fs  |-> [fs1 EXCEPT !.data = Encode(ListRemove(users, user_id))],
              io  |-> TouchIo(fs) \o <<"read", "truncate", "write">>]
        ELSE [ret |-> FALSE, fs |-> fs1, io |-> TouchIo(fs) \o <<"read">>]

\* ------------------------------------------------------------- dispatch
\* Body of POST /broadcast: a dict that may or may not carry "text".
Requests == {[has_text |-> FALSE, text |-> ""],
             [has_text |-> TRUE,  text |-> ""],
             [has_text |-> TRUE,  text |-> "hi"]}
\* request.get("text", "")  (line 183)
RequestText(request) == IF request.has_text THEN request.text ELSE ""

\* The loop body counting a success whatever send_push_message returned.
PushOne_miscount(acc, user_id, ok) ==
    [success_count |-> acc.success_count + 1,
     failed_users  |-> IF ok THEN acc.failed_users ELSE Append(acc.failed_users, user_id),
     pushes        |-> Append(acc.pushes, user_id)]

\* One iteration of the loop of lines 194-198; ok is what
\* send_push_message(user_id, text) returned (True, or False when the
\* platform call raised).
PushOne(acc, user_id, ok) ==
    [success_count |-> IF ok THEN acc.success_count + 1 ELSE acc.success_count,
     failed_users  |-> IF ok THEN acc.failed_users ELSE Append(acc.failed_users, user_id),
     pushes        |-> Append(acc.pushes, user_id)]

\* A loop that gives up at the first failed push.
LoopNext_stops(user_ids, acc) ==
    IF Len(acc.pushes) < Len(user_ids) /\ acc.failed_users = <<>> THEN "bc_push" ELSE "done"

\* for user_id in user_ids (line 194): another iteration while identifiers of
\* the snapshot remain, then the return of line 200.
LoopNext(user_ids, acc) ==
    IF Len(acc.pushes) < Len(user_ids) THEN "bc_push" ELSE "done"

\* success_count = 0; failed_users = []  (lines 191-192)
PushStart == [success_count |-> 0, failed_users |-> <<>>, pushes |-> <<>>]

\* The whole loop over a snapshot, the transport failing for the identifiers
\* in down.
RECURSIVE PushAll(_, _, _)
PushAll(user_ids, down, acc) ==
    IF user_ids = <<>> THEN acc
    ELSE PushAll(Tail(user_ids), down, PushOne(acc, Head(user_ids), Head(user_ids) \notin down))

\* The dict returned at lines 200-206.
BroadcastBody(user_ids, acc) ==
    [message       |-> "Broadcast completed",
     total_users   |-> Len(user_ids),
     success_count |-> acc.success_count,
     failed_count  |-> Len(acc.failed_users),
     failed_users  |-> acc.failed_users]

\* The dict returned at line 189.
NoUsersBody == [message |-> "No users to send message to", total_users |-> 0]

\* What the try block of broadcast_message does (lines 183-206): it returns a
\* dict, or raises HTTPException(400).
broadcast_try(fs, request, down) ==
    LET text == RequestText(request)
        user_ids == read_user_ids(fs)
        acc == PushAll(user_ids, down, PushStart)
    IN  IF text = ""
        THEN [raised |-> TRUE, status |-> 400,
              body |-> [detail |-> "Message text is required"],
              fs |-> fs, io |-> <<>>, pushes |-> <<>>]
        ELSE IF user_ids = <<>>
        THEN [raised |-> FALSE, status |-> 200, body |-> NoUsersBody,
              fs |-> ensure_users_file_exists(fs),
              io |-> TouchIo(fs) \o <<"read">>, pushes |-> <<>>]
        ELSE [raised |-> FALSE, status |-> 200,
              body |-> BroadcastBody(user_ids, acc),
              fs |-> ensure_users_file_exists(fs),
              io |-> TouchIo(fs) \o <<"read">>, pushes |-> acc.pushes]

\* except Exception (lines 208-210): HTTPException is an Exception, so whatever
\* the try block raised leaves as HTTPException(500).
broadcast_except(r) ==
    IF r.raised
    THEN [r EXCEPT !.status = 500, !.body = [detail |-> "Error broadcasting"]]
    ELSE r

\* POST /broadcast: [status, body, fs, io, pushes].
broadcast_message(fs, request, down) == broadcast_except(broadcast_try(fs, request, down))

\* DELETE /users/{user_id}  (lines 213-219): [ret, status, body, fs, io].
delete_user(fs, user_id) ==
    LET r == remove_user_id(fs, user_id)
    IN  [ret |-> r.ret, fs |-> r.fs, io |-> r.io,
         status |-> IF r.ret THEN 200 ELSE 404,
         body |-> IF r.ret THEN [message |-> "User removed successfully"]
                           ELSE [detail |-> "User not found"]]

\* ------------------------------------------------------------- webhook
\* Text of a message, one character per element. A Thai phrase is kept as one
\* symbol: strip() and lower() leave it as it is.
UpperCase == <<"A", "B", "C", "D", "E", "F", "G", "H", "I", "J", "K", "L", "M",
               "N", "O", "P", "Q", "R", "S", "T", "U", "V", "W", "X", "Y", "Z">>
LowerCase == <<"a", "b", "c", "d", "e", "f", "g", "h", "i", "j", "k", "l", "m",
               "n", "o", "p", "q", "r", "s", "t", "u", "v", "w", "x", "y", "z">>
LowerChar(c) ==
    IF \E i \in 1..Len(UpperCase) : UpperCase[i] = c
    THEN LowerCase[CHOOSE i \in 1..Len(UpperCase) : UpperCase[i] = c]
    ELSE c
\* A lower() that changes nothing.
lower_unchanged(s) == s
\* str.lower()
lower(s) == [i \in 1..Len(s) |-> LowerChar(s[i])]
\* sub in s
Contains(s, sub) ==
    \E i \in 0..(Len(s) - Len(sub)) : SubSeq(s, i + 1, i + Len(sub)) = sub

\* The phrase lists of handle_message  (lines 285, 287, 289).
Greetings ==
    {<<"TH:sawatdi">>, <<"h", "e", "l", "l", "o">>, <<"h", "i">>, <<"TH:watdi">>}
Thanks ==
    {<<"TH:khopkhun">>, <<"t", "h", "a", "n", "k", " ", "y", "o", "u">>,
     <<"t", "h", "a", "n", "k", "s">>}
UserIdPhrase == <<"u", "s", "e", "r", " ", "i", "d">>

\* The reply texts  (lines 261, 263, 286, 288, 290).
WelcomeNew == <<"TH:welcome, thanks for adding">>
WelcomeBack == <<"TH:welcome back">>
GreetingReply(user_id) == <<"TH:sawatdi khrap", NL, "User ID: ">> \o user_id
ThanksReply == <<"TH:yindi khrap">>
UserIdReply(user_id) == <<"User ID TH:is: ">> \o user_id

\* Events a delivery carries: a follow and a text message bring a reply token,
\* an unfollow brings none.
ReplyTokens == {"rt-a", "rt-b"}
Texts ==
    {<<" ", "H", "E", "L", "L", "O", " ">>, <<"h", "i">>,
     <<"T", "h", "a", "n", "k", "s">>,
     <<"m", "y", " ", "U", "s", "e", "r", " ", "I", "D", "?">>,
     <<"o", "k">>}
FollowEvents ==
    {[type |-> "follow", user_id |-> u, reply_token |-> t, text |-> <<>>] :
        u \in UserIds, t \in ReplyTokens}
UnfollowEvents ==
    {[type |-> "unfollow", user_id |-> u, reply_token |-> "", text |-> <<>>] :
        u \in UserIds}
MessageEvents ==
    {[type |-> "message", user_id |-> u, reply_token |-> t, text |-> x] :
        u \in UserIds, t \in ReplyTokens, x \in Texts}

\* send_reply_message(reply_token, text): one reply_message call; ok tells
\* whether the platform took it. Returns the call made  (lines 107-121).
send_reply_message(reply_token, text, ok) ==
    [reply_token |-> reply_token, text |-> text, delivered |-> ok]

\* handle_follow that greets everybody as new.
handle_follow_always_new(fs, event, ok) ==
    LET r == save_user_id(fs, event.user_id)
    IN  [raised |-> FALSE, ret |-> r.ret, fs |-> r.fs, io |-> r.io,
         replies |-> <<send_reply_message(event.reply_token, WelcomeNew, ok)>>,
         pushes |-> <<>>]

\* handle_follow(event): [raised, ret, fs, io, replies, pushes].
handle_follow(fs, event, ok) ==
    LET r == save_user_id(fs, event.user_id)
        is_new_user == r.ret
        welcome_text == IF is_new_user THEN WelcomeNew ELSE WelcomeBack
    IN  [raised |-> FALSE, ret |-> r.ret, fs |-> r.fs, io |-> r.io,
         replies |-> <<send_reply_message(event.reply_token, welcome_text, ok)>>,
         pushes |-> <<>>]

\* handle_unfollow(event)
handle_unfollow(fs, event, ok) ==
    LET r == remove_user_id(fs, event.user_id)
    IN  [raised |-> FALSE, ret |-> r.ret, fs |-> r.fs, io |-> r.io,
         replies |-> <<>>, pushes |-> <<>>]

\* handle_message that stores the sender only when it has a reply to send.
handle_message_saves_on_reply(fs, event, ok) ==
    LET text == strip(event.text)
        r == save_user_id(fs, event.user_id)
        e == ensure_users_file_exists(fs)
    IN  IF lower(text) \in Greetings
        THEN [raised |-> FALSE, ret |-> r.ret, fs |-> r.fs, io |-> r.io,
              replies |-> <<send_reply_message(event.reply_token,
                                               GreetingReply(event.user_id), ok)>>,
              pushes |-> <<>>]
        ELSE IF lower(text) \in Thanks
        THEN [raised |-> FALSE, ret |-> r.ret, fs |-> r.fs, io |-> r.io,
              replies |-> <<send_reply_message(event.reply_token, ThanksReply, ok)>>,
              pushes |-> <<>>]
        ELSE IF Contains(lower(text), UserIdPhrase)
        THEN [raised |-> FALSE, ret |-> r.ret, fs |-> r.fs, io |-> r.io,
              replies |-> <<send_reply_message(event.reply_token,
                                               UserIdReply(event.user_id), ok)>>,
              pushes |-> <<>>]
        ELSE [raised |-> TRUE, ret |-> FALSE, fs |-> e, io |-> TouchIo(fs),
              replies |-> <<>>, pushes |-> <<>>]

\* handle_message(event). The store call comes first (line 282). reply_text is
\* assigned in the three branches only: with a text that matches none of them
\* line 293 reads an unbound local, which raises before send_reply_message is
\* called.
handle_message(fs, event, ok) ==
    LET text == strip(event.text)
        r == save_user_id(fs, event.user_id)
    IN  IF lower(text) \in Greetings
        THEN [raised |-> FALSE, ret |-> r.ret, fs |-> r.fs, io |-> r.io,
              replies |-> <<send_reply_message(event.reply_token,
                                               GreetingReply(event.user_id), ok)>>,
              pushes |-> <<>>]
        ELSE IF lower(text) \in Thanks
        THEN [raised |-> FALSE, ret |-> r.ret, fs |-> r.fs, io |-> r.io,
              replies |-> <<send_reply_message(event.reply_token, ThanksReply, ok)>>,
              pushes |-> <<>>]
        ELSE IF Contains(lower(text), UserIdPhrase)
        THEN [raised |-> FALSE, ret |-> r.ret, fs |-> r.fs, io |-> r.io,
              replies |-> <<send_reply_message(event.reply_token,
                                               UserIdReply(event.user_id), ok)>>,
              pushes |-> <<>>]
        ELSE [raised |-> TRUE, ret |-> r.ret, fs |-> r.fs, io |-> r.io,
              replies |-> <<>>, pushes |-> <<>>]

\* handler.handle(body_text, signature) for a delivery of one event with a
\* good signature: the handler registered for the event's type runs.
handle(fs, event, ok) ==
    CASE event.type = "follow" -> handle_follow(fs, event, ok)
      [] event.type = "unfollow" -> handle_unfollow(fs, event, ok)
      [] event.type = "message" -> handle_message(fs, event, ok)

\* POST /webhook: what the handler raises is answered with 500
\* (lines 235-246).
webhook(fs, event, ok) ==
    LET r == handle(fs, event, ok)
    IN  [raised |-> r.raised, ret |-> r.ret, fs |-> r.fs, io |-> r.io,
         replies |-> r.replies, pushes |-> r.pushes,
         status |-> IF r.raised THEN 500 ELSE 200,
         body |-> IF r.raised THEN [detail |-> "Internal server error"]
                  ELSE [message |-> "Webhook handled successfully"]]

\* ------------------------------------------------- sequential specification
\* Calls run one after the other, each to completion: one action per call.
\* hist records what each call was given, returned and did.
NoRequest == [has_text |-> FALSE, text |-> ""]
Remember(h, call) == IF Len(h) < 2 THEN Append(h, call) ELSE Append(Tail(h), call)

Call(op, user_id, request, down, ret, status, body, io, pushes, fs) ==
    [op |-> op, user_id |-> user_id, request |-> request, down |-> down, ret |-> ret,
     status |-> status, body |-> body, io |-> io, pushes |-> pushes,
     before |-> ParseUsers(users_txt.data), after |-> ParseUsers(fs.data)]

IdleProc ==
    [pc |-> "idle", op |-> "none", user_id |-> <<>>, request |-> NoRequest,
     users |-> <<>>, ret |-> FALSE, status |-> 0, body |-> <<>>,
     acc |-> PushStart, reads |-> 0]
Procs == 1..NumProcs

Init ==
    /\ users_txt = [exists |-> FALSE, data |-> <<>>]
    /\ hist = <<>>
    /\ procs = [p \in Procs |-> IdleProc]
    /\ file0 = users_txt

\* save_user_id(user_id), as the webhook handlers call it.
SaveUserId ==
    \E user_id \in UserIds :
        \E r \in {save_user_id(users_txt, user_id)} :
            /\ users_txt' = r.fs
            /\ hist' = Remember(hist, Call("save_user_id", user_id, NoRequest, {}, r.ret,
                                           0, <<>>, r.io, <<>>, r.fs))

\* DELETE /users/{user_id}, which calls remove_user_id(user_id).
DeleteUser ==
    \E user_id \in PathIds :
        \E r \in {delete_user(users_txt, user_id)} :
            /\ users_txt' = r.fs
            /\ hist' = Remember(hist, Call("delete_user", user_id, NoRequest, {}, r.ret,
                                           r.status, r.body, r.io, <<>>, r.fs))

\* GET /users  (lines 164-171).
GetUsers ==
    LET users == read_user_ids(users_txt)
        fs1 == ensure_users_file_exists(users_txt)
    IN  /\ users_txt' = fs1
        /\ hist' = Remember(hist, Call("get_users", <<>>, NoRequest, {}, FALSE, 200,
                                       [total_users |-> Len(users), users |-> users],
                                       TouchIo(users_txt) \o <<"read">>, <<>>, fs1))

\* GET /users/count  (lines 173-177).
GetUserCount ==
    LET user_count == Len(read_user_ids(users_txt))
        fs1 == ensure_users_file_exists(users_txt)
    IN  /\ users_txt' = fs1
        /\ hist' = Remember(hist, Call("get_user_count", <<>>, NoRequest, {}, FALSE, 200,
                                       [total_users |-> user_count],
                                       TouchIo(users_txt) \o <<"read">>, <<>>, fs1))

\* POST /broadcast; the transport fails for the identifiers in down.
BroadcastMessage ==
    \E request \in Requests :
    \E down \in SUBSET Range(ParseUsers(users_txt.data)) :
        /\ RequestText(request) = "" => down = {}
        /\ \E r \in {broadcast_message(users_txt, request, down)} :
            /\ users_txt' = r.fs
            /\ hist' = Remember(hist, Call("broadcast_message", <<>>, request, down, FALSE,
                                           r.status, r.body, r.io, r.pushes, r.fs))

\* The process is stopped and started again: nothing but users.txt outlives
\* it, and start-up calls ensure_users_file_exists()  (line 297).
Restart ==
    \E fs1 \in {ensure_users_file_exists(users_txt)} :
        /\ users_txt' = fs1
        /\ hist' = Remember(hist, Call("restart", <<>>, NoRequest, {}, FALSE, 0,
                                       read_user_ids(fs1), TouchIo(users_txt), <<>>, fs1))

Next ==
    \/ SaveUserId /\ UNCHANGED <<procs, file0>>
    \/ DeleteUser /\ UNCHANGED <<procs, file0>>
    \/ GetUsers /\ UNCHANGED <<procs, file0>>
    \/ GetUserCount /\ UNCHANGED <<procs, file0>>
    \/ BroadcastMessage /\ UNCHANGED <<procs, file0>>
    \/ Restart /\ UNCHANGED <<procs, file0>>

Spec == Init /\ [][Next]_vars

\* ------------------------------------------------------ event specification
\* Deliveries to POST /webhook, handled one after the other from start-up on
\* the event loop; hist holds the record of the last one.

\* How far the last deliveries got through Follow(U), Unfollow(U),
\* TextMessage(U) for one U.
Trail(h, event) ==
    LET last == IF h = <<>> THEN <<>> ELSE h[Len(h)]
        same == h # <<>> /\ "trail" \in DOMAIN last /\ last.user_id = event.user_id
    IN  IF event.type = "unfollow" /\ same /\ last.trail = <<"follow">>
        THEN <<"follow", "unfollow">>
        ELSE IF event.type = "message" /\ same /\ last.trail = <<"follow", "unfollow">>
        THEN <<"follow", "unfollow", "message">>
        ELSE <<event.type>>

Delivery(event, r) ==
    [op |-> event.type, user_id |-> event.user_id, reply_token |-> event.reply_token,
     text |-> event.text, raised |-> r.raised, ret |-> r.ret, status |-> r.status,
     body |-> r.body, io |-> r.io, replies |-> r.replies, pushes |-> r.pushes,
     before |-> ParseUsers(users_txt.data), after |-> ParseUsers(r.fs.data),
     trail |-> Trail(hist, event)]

Deliver(event, ok) ==
    \E r \in {webhook(users_txt, event, ok)} :
        /\ users_txt' = r.fs
        /\ hist' = <<Delivery(event, r)>>

\* ok: whether the platform takes the reply.
OnFollow == \E event \in FollowEvents : \E ok \in BOOLEAN : Deliver(event, ok)
OnUnfollow == \E event \in UnfollowEvents : Deliver(event, TRUE)
OnMessage == \E event \in MessageEvents : \E ok \in BOOLEAN : Deliver(event, ok)

NextEvents ==
    \/ OnFollow /\ UNCHANGED <<procs, file0>>
    \/ OnUnfollow /\ UNCHANGED <<procs, file0>>
    \/ OnMessage /\ UNCHANGED <<procs, file0>>

SpecEvents == Init /\ [][NextEvents]_vars

\* ------------------------------------------------- identifier strings
\* save_user_id takes whatever string it is given: beside the platform's
\* identifiers, one with a leading blank and the empty string. Calls run one
\* after the other; the file is kept to NumUsers + 1 records.
IdStrings == UserIds \cup {<<SP>> \o Uid(1), <<>>}

SaveIdString ==
    /\ Len(FileLines(users_txt.data)) <= NumUsers
    /\ \E user_id \in IdStrings :
        \E r \in {save_user_id(users_txt, user_id)} :
            /\ users_txt' = r.fs
            /\ hist' = Remember(hist, Call("save_user_id", user_id, NoRequest, {}, r.ret,
                                           0, <<>>, r.io, <<>>, r.fs))

NextStrings ==
    \/ SaveIdString /\ UNCHANGED <<procs, file0>>
    \/ GetUsers /\ UNCHANGED <<procs, file0>>

SpecStrings == Init /\ [][NextStrings]_vars

\* ------------------------------------------------- storage faults
\* One access of a call may fail (permission, disk): creating the file,
\* opening it for reading, opening it for appending, the write of the appended
\* record, opening it for rewriting (which truncates when it succeeds), or the
\* write of the rewritten records. Every such exception is caught where the
\* code has its except clauses.
SaveFaults == {"none", "touch", "open_r", "open_a", "write_a"}
RemoveFaults == {"none", "touch", "open_r", "open_w", "write_w"}
ReadFaults == {"none", "touch", "open_r"}

\* ensure_users_file_exists(): a failed touch() is logged  (lines 52-59).
ensure_faulty(fs, fault) ==
    IF fs.exists \/ fault = "touch" THEN fs ELSE [fs EXCEPT !.exists = TRUE]

\* read_user_ids(): open() of a missing or unreadable file raises inside the
\* try, and the except clause returns []  (lines 61-70).
read_faulty(fs, fault) ==
    LET fs1 == ensure_faulty(fs, fault)
    IN  IF ~fs1.exists \/ fault = "open_r"
        THEN [users |-> <<>>, fs |-> fs1, failed |-> TRUE]
        ELSE [users |-> ParseUsers(fs1.data), fs |-> fs1,
              failed |-> ~fs.exists /\ fault = "touch"]

\* save_user_id(user_id): [ret, fs, failed, raised]  (lines 72-87).
\* open(.., "a") creates a missing file; a write that fails leaves nothing.
save_faulty(fs, user_id, fault) ==
    LET rd == read_faulty(fs, fault)
        existing_users == Range(rd.users)
    IN  IF user_id \notin existing_users
        THEN IF fault = "open_a"
             THEN [ret |-> FALSE, fs |-> rd.fs, failed |-> TRUE, raised |-> FALSE]
             ELSE IF fault = "write_a"
             THEN [ret |-> FALSE, fs |-> [rd.fs EXCEPT !.exists = TRUE],
                   failed |-> TRUE, raised |-> FALSE]
             ELSE [ret |-> TRUE,
                   fs |-> [exists |-> TRUE,
                           data |-> AppendWrite(rd.fs.data, Record(user_id))],
                   failed |-> rd.failed, raised |-> FALSE]
        ELSE [ret |-> FALSE, fs |-> rd.fs, failed |-> rd.failed, raised |-> FALSE]

\* remove_user_id(user_id): [ret, fs, failed, raised]  (lines 89-105).
\* open(.., "w") has truncated the file when the write after it fails.
remove_faulty(fs, user_id, fault) ==
    LET rd == read_faulty(fs, fault)
        users == rd.users
    IN  IF user_id \in Range(users)
        THEN IF fault = "open_w"
             THEN [ret |-> FALSE, fs |-> rd.fs, failed |-> TRUE, raised |-> FALSE]
             ELSE IF fault = "write_w"
             THEN [ret |-> FALSE, fs |-> [rd.fs EXCEPT !.data = <<>>],
                   failed |-> TRUE, raised |-> FALSE]
             ELSE [ret |-> TRUE,
                   fs |-> [rd.fs EXCEPT !.data = Encode(ListRemove(users, user_id))],
                   failed |-> rd.failed, raised |-> FALSE]
        ELSE [ret |-> FALSE, fs |-> rd.fs, failed |-> rd.failed, raised |-> FALSE]

\* hist holds the record of the last call.
FaultyCall(op, user_id, fault, r, users) ==
    [op |-> op, user_id |-> user_id, fault |-> fault, ret |-> r.ret,
     failed |-> r.failed, raised |-> r.raised, users |-> users,
     before |-> ParseUsers(users_txt.data), after |-> ParseUsers(r.fs.data)]

\* The file is kept to NumUsers + 1 records.
SaveFaulty ==
    /\ Len(FileLines(users_txt.data)) <= NumUsers
    /\ \E user_id \in UserIds : \E fault \in SaveFaults :
        \E r \in {save_faulty(users_txt, user_id, fault)} :
            /\ users_txt' = r.fs
            /\ hist' = <<FaultyCall("save_user_id", user_id, fault, r, <<>>)>>

RemoveFaulty ==
    \E user_id \in UserIds : \E fault \in RemoveFaults :
        \E r \in {remove_faulty(users_txt, user_id, fault)} :
            /\ users_txt' = r.fs
            /\ hist' = <<FaultyCall("remove_user_id", user_id, fault, r, <<>>)>>

ReadFaulty ==
    \E fault \in ReadFaults :
        \E rd \in {read_faulty(users_txt, fault)} :
            /\ users_txt' = rd.fs
            /\ hist' = <<FaultyCall("read_user_ids", <<>>, fault,
                                    [ret |-> FALSE, fs |-> rd.fs, failed |-> rd.failed,
                                     raised |-> FALSE], rd.users)>>

NextFaulty ==
    \/ SaveFaulty /\ UNCHANGED <<procs, file0>>
    \/ RemoveFaulty /\ UNCHANGED <<procs, file0>>
    \/ ReadFaulty /\ UNCHANGED <<procs, file0>>

SpecFaulty == Init /\ [][NextFaulty]_vars

\* ------------------------------------------------- concurrent specification
\* Calls overlap: the server runs its synchronous endpoints on pool threads
\* beside the event loop, and several workers may share users.txt. No function
\* of the store takes a lock, so a call is a sequence of steps, one per access
\* to the file (or per push), and the steps of different callers interleave.
\* Each caller makes one call.

\* The stores the sequential calls can leave: duplicate-free lists of issued
\* identifiers, one record per identifier.
InitLists ==
    {l \in UNION {[1..n -> UserIds] : n \in 0..MaxInit} :
        \A i, j \in 1..Len(l) : l[i] = l[j] => i = j}

InitConc ==
    /\ users_txt \in {[exists |-> TRUE, data |-> Encode(l)] : l \in InitLists}
                    \cup {[exists |-> FALSE, data |-> <<>>]}
    /\ hist = <<>>
    /\ procs = [p \in Procs |-> IdleProc]
    /\ file0 = users_txt

\* save_user_id, line 75: existing_users = set(read_user_ids()), and the test
\* of line 77 on that snapshot.
SaveRead(p) ==
    \E user_id \in UserIds :
        LET fs1 == ensure_users_file_exists(users_txt)
            users == read_user_ids(users_txt)
        IN  /\ procs[p].pc = "idle"
            /\ users_txt' = fs1
            /\ procs' = [procs EXCEPT ![p] =
                  [@ EXCEPT !.op = "save_user_id", !.user_id = user_id,
                            !.users = users, !.reads = 1,
                            !.pc = IF user_id \notin Range(users)
                                   THEN "save_append" ELSE "done",
                            !.ret = FALSE]]
            /\ UNCHANGED <<hist, file0>>

\* save_user_id, lines 78-81: append the record, return True.
SaveAppend(p) ==
    /\ procs[p].pc = "save_append"
    /\ users_txt' = [exists |-> TRUE,
                     data |-> AppendWrite(users_txt.data, Record(procs[p].user_id))]
    /\ procs' = [procs EXCEPT ![p] = [@ EXCEPT !.pc = "done", !.ret = TRUE]]
    /\ UNCHANGED <<hist, file0>>

\* delete_user -> remove_user_id, lines 92-94: users = read_user_ids(), the
\* membership test and users.remove(user_id); not found answers 404.
RemoveRead(p) ==
    \E user_id \in PathIds :
        LET fs1 == ensure_users_file_exists(users_txt)
            users == read_user_ids(users_txt)
        IN  /\ procs[p].pc = "idle"
            /\ users_txt' = fs1
            /\ procs' = [procs EXCEPT ![p] =
                  IF user_id \in Range(users)
                  THEN [@ EXCEPT !.op = "delete_user", !.user_id = user_id,
                                 !.users = ListRemove(users, user_id), !.reads = 1,
                                 !.pc = "remove_open"]
                  ELSE [@ EXCEPT !.op = "delete_user", !.user_id = user_id,
                                 !.users = users, !.reads = 1,
                                 !.pc = "done", !.ret = FALSE, !.status = 404,
                                 !.body = [detail |-> "User not found"]]]
            /\ UNCHANGED <<hist, file0>>

\* remove_user_id, line 95: open(USERS_FILE, "w") empties the file.
RemoveOpen(p) ==
    /\ procs[p].pc = "remove_open"
    /\ users_txt' = [exists |-> TRUE, data |-> <<>>]
    /\ procs' = [procs EXCEPT ![p] = [@ EXCEPT !.pc = "remove_write"]]
    /\ UNCHANGED <<hist, file0>>

\* remove_user_id, lines 96-99: the remaining records are written as the file
\* is closed; return True, and delete_user answers 200.
RemoveWrite(p) ==
    /\ procs[p].pc = "remove_write"
    /\ users_txt' = [exists |-> TRUE,
                     data |-> WriteAtStart(users_txt.data, Encode(procs[p].users))]
    /\ procs' = [procs EXCEPT ![p] =
          [@ EXCEPT !.pc = "done", !.ret = TRUE, !.status = 200,
                    !.body = [message |-> "User removed successfully"]]]
    /\ UNCHANGED <<hist, file0>>

\* GET /users: one read of the file.
ListRead(p) ==
    LET users == read_user_ids(users_txt)
    IN  /\ procs[p].pc = "idle"
        /\ users_txt' = ensure_users_file_exists(users_txt)
        /\ procs' = [procs EXCEPT ![p] =
              [@ EXCEPT !.op = "get_users", !.users = users, !.reads = 1,
                        !.pc = "done", !.status = 200,
                        !.body = [total_users |-> Len(users), users |-> users]]]
        /\ UNCHANGED <<hist, file0>>

\* broadcast_message, lines 183-192: the text test, then the snapshot.
BcRead(p) ==
    \E request \in Requests :
        LET users == read_user_ids(users_txt)
        IN  /\ procs[p].pc = "idle"
            /\ IF RequestText(request) = ""
               THEN /\ procs' = [procs EXCEPT ![p] =
                         [@ EXCEPT !.op = "broadcast_message", !.request = request,
                                   !.pc = "done", !.status = 500,
                                   !.body = [detail |-> "Error broadcasting"]]]
                    /\ UNCHANGED users_txt
               ELSE /\ users_txt' = ensure_users_file_exists(users_txt)
                    /\ procs' = [procs EXCEPT ![p] =
                         [@ EXCEPT !.op = "broadcast_message", !.request = request,
                                   !.users = users, !.reads = 1, !.status = 200,
                                   !.pc = IF users = <<>> THEN "done" ELSE "bc_push",
                                   !.body = IF users = <<>> THEN NoUsersBody ELSE <<>>]]
            /\ UNCHANGED <<hist, file0>>

\* broadcast_message, lines 194-206: one send_push_message, which succeeds or
\* fails; after the last one the result is returned.
BcPush(p) ==
    \E ok \in BOOLEAN :
        LET me == procs[p]
            acc == PushOne(me.acc, me.users[Len(me.acc.pushes) + 1], ok)
            pc == LoopNext(me.users, acc)
        IN  /\ me.pc = "bc_push"
            /\ procs' = [procs EXCEPT ![p] =
                  [@ EXCEPT !.acc = acc, !.pc = pc,
                            !.body = IF pc = "done" THEN BroadcastBody(me.users, acc)
                                     ELSE <<>>]]
            /\ UNCHANGED <<users_txt, hist, file0>>

\* One step of a caller of the store.
StoreStep(p) ==
    \/ SaveRead(p)
    \/ SaveAppend(p)
    \/ RemoveRead(p)
    \/ RemoveOpen(p)
    \/ RemoveWrite(p)
    \/ ListRead(p)

\* Callers of the store alone.
NextConc == \E p \in Procs : StoreStep(p)

SpecConc == InitConc /\ [][NextConc]_vars

\* One broadcast (caller 1) beside callers of the store.
NextBroadcast ==
    \/ BcRead(1)
    \/ BcPush(1)
    \/ \E p \in Procs \ {1} : StoreStep(p)

\* The broadcast is a running request: while it can send, it does send.
SpecBroadcast == InitConc /\ [][NextBroadcast]_vars /\ WF_vars(BcPush(1))

\* ------------------------------------------------- after overlapping calls
\* Callers overlap as above; once every call that was started has returned,
\* deletes and Unfollow deliveries run one after the other, each to
\* completion, on the file the overlapping calls left.
Returned ==
    /\ \A p \in Procs : procs[p].pc \in {"idle", "done"}
    /\ \E p \in Procs : procs[p].pc = "done"

NextSettled ==
    \/ hist = <<>> /\ \E p \in Procs : StoreStep(p)
    \/ Returned /\ DeleteUser /\ UNCHANGED <<procs, file0>>
    \/ Returned /\ OnUnfollow /\ UNCHANGED <<procs, file0>>

SpecSettled == InitConc /\ [][NextSettled]_vars

\* ============================================================== properties
IsInjective(s) == \A i, j \in 1..Len(s) : s[i] = s[j] => i = j
Writes == {"touch", "append", "truncate", "write"}
\* The sub-sequence of s whose elements are in S.
RECURSIVE Restrict(_, _)
Restrict(s, S) ==
    IF s = <<>> THEN <<>>
    ELSE (IF Head(s) \in S THEN <<Head(s)>> ELSE <<>>) \o Restrict(Tail(s), S)

\* C1: starting from the empty store, after every prefix of every sequence of
\* calls run one after the other, list() holds no identifier twice.
C1_NoDuplicateIds == IsInjective(read_user_ids(users_txt))

\* C1 witness: an add of an identifier already stored has just returned, with
\* two identifiers in the store.
C1_Witness ==
    /\ Len(hist) = 2
    /\ hist[2].op = "save_user_id" /\ ~hist[2].ret
    /\ Len(read_user_ids(users_txt)) >= 2

\* C6 (as claimed): a broadcast with empty text sends nothing, leaves the store
\* alone and answers with the client error 400.
C6_EmptyTextIsClientError ==
    \A i \in 1..Len(hist) :
        (hist[i].op = "broadcast_message" /\ RequestText(hist[i].request) = "")
        => /\ hist[i].pushes = <<>>
           /\ hist[i].io = <<>>
           /\ hist[i].after = hist[i].before
           /\ hist[i].status = 400

C9_AddTwice ==
    (/\ Len(hist) = 2
     /\ hist[1].op = "save_user_id" /\ hist[2].op = "save_user_id"
     /\ hist[1].user_id = hist[2].user_id
     /\ hist[1].user_id \notin Range(hist[1].before))
    => /\ hist[1].ret /\ ~hist[2].ret
       /\ Len(hist[2].after) = Len(hist[1].before) + 1
       /\ Len(read_user_ids(users_txt)) = Len(hist[1].before) + 1
       /\ Range(hist[2].io) \cap Writes = {}
       /\ hist[2].after = hist[2].before

\* C9 witness: the second of two adds of a new identifier has returned, on a
\* store that held another identifier.
C9_Witness ==
    /\ Len(hist) = 2
    /\ hist[1].op = "save_user_id" /\ hist[2].op = "save_user_id"
    /\ hist[1].user_id = hist[2].user_id
    /\ hist[1].user_id \notin Range(hist[1].before)
    /\ hist[1].before # <<>>

\* C10: remove(x) of an identifier that is not stored returns false and leaves
\* list() as it was, content and order; DELETE /users/x answers 404.
C10_RemoveAbsent ==
    \A i \in 1..Len(hist) :
        (hist[i].op = "delete_user" /\ hist[i].user_id \notin Range(hist[i].before))
        => /\ ~hist[i].ret
           /\ hist[i].after = hist[i].before
           /\ Range(hist[i].io) \cap Writes \subseteq {"touch"}
           /\ hist[i].status = 404

\* C10 witness: a delete of a blank-padded copy of a stored identifier has
\* returned, on a store of two identifiers.
C10_Witness ==
    /\ hist # <<>>
    /\ LET c == hist[Len(hist)]
       IN  /\ c.op = "delete_user"
           /\ c.user_id \notin Range(c.before)
           /\ strip(c.user_id) \in Range(c.before)
           /\ Len(c.before) >= 2

\* ---- concurrent callers
\* No caller is in the middle of a call.
Quiescent == \A p \in Procs : procs[p].pc \in {"idle", "done"}
Started == {p \in Procs : procs[p].pc # "idle"}
Mutators == {p \in Started : procs[p].op \in {"save_user_id", "delete_user"}}
IsSave(p) == procs[p].op = "save_user_id"
\* The file after caller p's call run alone on fs.
AppliedAlone(fs, p) ==
    IF IsSave(p) THEN save_user_id(fs, procs[p].user_id).fs
    ELSE remove_user_id(fs, procs[p].user_id).fs
\* The files the calls of the callers in P leave when run one after the other,
\* in every order.
RECURSIVE SerialFiles(_, _)
SerialFiles(fs, P) ==
    IF P = {} THEN {fs}
    ELSE UNION {SerialFiles(AppliedAlone(fs, p), P \ {p}) : p \in P}
Members(fs) == Range(ParseUsers(fs.data))
Occurrences(l, x) == Cardinality({i \in 1..Len(l) : l[i] = x})

\* C2 (as claimed): once overlapping add/remove calls have all returned, the
\* membership is one that some serial order of the same calls produces.
C2_Serializable ==
    Quiescent => Members(users_txt) \in {Members(f) : f \in SerialFiles(file0, Mutators)}

\* C3: N callers add N distinct identifiers, none of them stored, at once: when
\* all have returned, every call returned true and list() is the former list
\* followed by exactly those N identifiers, each once, in some order.
C3_DistinctAddsAllKept ==
    (/\ Quiescent
     /\ Started = Procs
     /\ \A p \in Procs : IsSave(p) /\ procs[p].user_id \notin Members(file0)
     /\ \A p, q \in Procs : procs[p].user_id = procs[q].user_id => p = q)
    => LET old == ParseUsers(file0.data)
           now == ParseUsers(users_txt.data)
       IN  /\ \A p \in Procs : procs[p].ret
           /\ Len(now) = Len(old) + NumProcs
           /\ SubSeq(now, 1, Len(old)) = old
           /\ \A p \in Procs : Occurrences(now, procs[p].user_id) = 1

\* C3 witness: all callers have added distinct new identifiers to a store that
\* held another identifier, and have returned.
C3_Witness ==
    /\ Quiescent
    /\ Started = Procs
    /\ \A p \in Procs : IsSave(p) /\ procs[p].user_id \notin Members(file0)
    /\ \A p, q \in Procs : procs[p].user_id = procs[q].user_id => p = q
    /\ ParseUsers(file0.data) # <<>>

\* C4 (as claimed): two callers add the same identifier, not yet stored, at
\* once: exactly one call returns true and list() holds the identifier once.
C4_SameAddOnce ==
    \A p, q \in Procs :
        (/\ p # q
         /\ Quiescent
         /\ Started = {p, q}
         /\ IsSave(p) /\ IsSave(q)
         /\ procs[p].user_id = procs[q].user_id
         /\ procs[p].user_id \notin Members(file0))
        => /\ procs[p].ret # procs[q].ret
           /\ Occurrences(ParseUsers(users_txt.data), procs[p].user_id) = 1

\* C5 (as claimed): a list() that overlaps one add or remove returns the
\* membership from before that call or the one from after it.
C5_NoTornRead ==
    \A r, m \in Procs :
        (/\ Quiescent
         /\ Started = {r, m}
         /\ procs[r].op = "get_users"
         /\ m \in Mutators)
        => procs[r].users \in {ParseUsers(file0.data),
                               ParseUsers(AppliedAlone(file0, m).data)}

\* C8: a broadcast with non-empty text reads the store once, at its start; its
\* snapshot does not change while it runs; it pushes to the identifiers of the
\* snapshot in order, once each, whatever earlier pushes returned and whatever
\* the other callers do to the store; and it runs on until it returns a result.
C8_PushesFollowSnapshot ==
    LET b == procs[1]
    IN  (b.op = "broadcast_message" /\ RequestText(b.request) # "")
        => /\ b.reads = 1
           /\ Len(b.acc.pushes) <= Len(b.users)
           /\ b.acc.pushes = SubSeq(b.users, 1, Len(b.acc.pushes))
           /\ b.pc \in {"bc_push", "done"}
           /\ b.pc = "done" =>
                /\ b.acc.pushes = b.users
                /\ b.status = 200
                /\ b.body.total_users = Len(b.users)
C8_BroadcastCompletes ==
    /\ []C8_PushesFollowSnapshot
    /\ [][procs[1].pc = "bc_push" =>
            /\ procs'[1].users = procs[1].users
            /\ procs'[1].reads = procs[1].reads]_vars
    /\ (procs[1].pc = "bc_push") ~> (procs[1].pc = "done")

\* C8 witness: the broadcast has pushed to the first of the two identifiers of
\* its snapshot, that push failed, a remove has emptied the file meanwhile, and
\* the second push is still to come.
C8_Witness ==
    LET b == procs[1]
    IN  /\ b.pc = "bc_push"
        /\ Len(b.users) = 2
        /\ b.acc.pushes = <<b.users[1]>>
        /\ b.acc.failed_users = <<b.users[1]>>
        /\ users_txt.data = <<>>

\* ---- calls run one after the other (continued)

\* C11 (as claimed): in every store state the program reaches, remove(x)
\* returns true exactly when x was in list() before the call (and DELETE
\* answers 200 exactly then); after a remove that returned true x is no longer
\* in list() and every other identifier is still there.
C11_RemoveIffPresent ==
    \A i \in 1..Len(hist) :
        hist[i].op = "delete_user"
        => /\ hist[i].ret <=> hist[i].user_id \in Range(hist[i].before)
           /\ hist[i].status = 200 <=> hist[i].ret
           /\ hist[i].ret =>
                /\ hist[i].user_id \notin Range(hist[i].after)
                /\ Range(hist[i].after) = Range(hist[i].before) \ {hist[i].user_id}

\* C12: the persisted order is stable: list() returns what the file holds in
\* file order, an add that returns true puts the new identifier last behind
\* the others, a remove keeps the others in their order, and after a restart
\* the same sequence is read.
C12_OrderStable ==
    \A i \in 1..Len(hist) :
        /\ (hist[i].op = "save_user_id" /\ hist[i].ret)
           => hist[i].after = Append(hist[i].before, hist[i].user_id)
        /\ (hist[i].op = "delete_user" /\ hist[i].ret)
           => hist[i].after = Restrict(hist[i].before, UserIds \ {hist[i].user_id})
        /\ hist[i].op = "get_users"
           => hist[i].body.users = hist[i].before /\ hist[i].after = hist[i].before
        /\ hist[i].op = "restart"
           => hist[i].body = hist[i].before /\ hist[i].after = hist[i].before

\* C12 witness: the middle one of three identifiers was removed and the
\* process restarted, with the two others still stored in their order.
C12_Witness ==
    /\ Len(hist) = 2
    /\ hist[1].op = "delete_user" /\ hist[1].ret
    /\ Len(hist[1].before) = 3 /\ hist[1].before[2] = hist[1].user_id
    /\ hist[2].op = "restart"
    /\ hist[2].body = <<hist[1].before[1], hist[1].before[3]>>

\* ---- webhook deliveries

\* C13: a Follow event is answered with the welcome text exactly when the
\* identifier was not stored before it and with the welcome-back text
\* otherwise; afterwards the identifier is stored, and when it was stored
\* already the list, and so the count, is what it was.
C13_FollowReply ==
    \A i \in 1..Len(hist) :
        hist[i].op = "follow"
        => /\ Len(hist[i].replies) = 1
           /\ hist[i].replies[1].reply_token = hist[i].reply_token
           /\ hist[i].replies[1].text = WelcomeNew
                <=> hist[i].user_id \notin Range(hist[i].before)
           /\ hist[i].replies[1].text = WelcomeBack
                <=> hist[i].user_id \in Range(hist[i].before)
           /\ hist[i].user_id \in Range(hist[i].after)
           /\ hist[i].user_id \in Range(hist[i].before)
                => hist[i].after = hist[i].before

\* C13 witness: a Follow of an identifier stored beside another one was
\* answered with the welcome-back text.
C13_Witness ==
    /\ hist # <<>>
    /\ hist[1].op = "follow"
    /\ hist[1].user_id \in Range(hist[1].before)
    /\ Len(hist[1].before) >= 2
    /\ hist[1].replies[1].text = WelcomeBack

\* C14 (as claimed): after an Unfollow event the identifier is not stored, the
\* other identifiers are stored as before, and no reply and no push was
\* attempted.
C14_UnfollowRemoves ==
    \A i \in 1..Len(hist) :
        hist[i].op = "unfollow"
        => /\ hist[i].user_id \notin Range(hist[i].after)
           /\ hist[i].after = Restrict(hist[i].before, UserIds \ {hist[i].user_id})
           /\ hist[i].replies = <<>>
           /\ hist[i].pushes = <<>>

\* Texts that are a greeting once trimmed and lower-cased: " HELLO " and "hi".
GreetingTexts == {<<" ", "H", "E", "L", "L", "O", " ">>, <<"h", "i">>}

\* C16: a TextMessage whose trimmed, lower-cased text is a greeting is answered
\* with the greeting reply, which contains the sender's identifier.
C16_GreetingReply ==
    \A i \in 1..Len(hist) :
        (hist[i].op = "message" /\ hist[i].text \in GreetingTexts)
        => /\ Len(hist[i].replies) = 1
           /\ hist[i].replies[1].reply_token = hist[i].reply_token
           /\ hist[i].replies[1].text = GreetingReply(hist[i].user_id)
           /\ Contains(hist[i].replies[1].text, hist[i].user_id)
           /\ GreetingReply(hist[i].user_id) \notin {ThanksReply, UserIdReply(hist[i].user_id)}

\* C16 witness: " HELLO " was answered.
C16_Witness ==
    /\ hist # <<>>
    /\ hist[1].op = "message"
    /\ hist[1].text = <<" ", "H", "E", "L", "L", "O", " ">>
    /\ Len(hist[1].replies) = 1

\* C17 (as claimed): every TextMessage event, whatever its text, gets exactly
\* one reply call with its own reply token, with the sender stored, and the
\* handler does not raise.
C17_AlwaysOneReply ==
    \A i \in 1..Len(hist) :
        hist[i].op = "message"
        => /\ ~hist[i].raised
           /\ hist[i].status = 200
           /\ Len(hist[i].replies) = 1
           /\ hist[i].replies[1].reply_token = hist[i].reply_token
           /\ hist[i].user_id \in Range(hist[i].after)

\* C18: after any sequence of events, a TextMessage from U leaves U stored
\* exactly once, whatever its text and whether or not a reply was sent or
\* taken; so does the sequence Follow(U), Unfollow(U), TextMessage(U).
C18_MessageKeepsSender ==
    \A i \in 1..Len(hist) :
        hist[i].op = "message"
        => /\ Occurrences(hist[i].after, hist[i].user_id) = 1
           /\ Occurrences(read_user_ids(users_txt), hist[i].user_id) = 1

\* C18 witness: Follow(U), Unfollow(U), TextMessage(U) were handled in a row,
\* the text matching no phrase, with another identifier stored.
C18_Witness ==
    /\ hist # <<>>
    /\ hist[1].trail = <<"follow", "unfollow", "message">>
    /\ hist[1].raised
    /\ hist[1].user_id \notin Range(hist[1].before)
    /\ Len(hist[1].after) >= 2

\* ---- identifier strings

\* C19 (as claimed): for every identifier string x, when add(x) returns true x
\* is a member of list() read right afterwards, and an add(x) that follows
\* returns false.
C19_AddedIsMember ==
    /\ \A i \in 1..Len(hist) :
        (hist[i].op = "save_user_id" /\ hist[i].ret)
        => hist[i].user_id \in Range(hist[i].after)
    /\ (/\ Len(hist) = 2
        /\ hist[1].op = "save_user_id" /\ hist[2].op = "save_user_id"
        /\ hist[1].user_id = hist[2].user_id
        /\ hist[1].ret)
       => ~hist[2].ret

\* ---- storage faults

\* C15 (as claimed): when an access to the file fails at any step of list, add
\* or remove, list returns the empty sequence, add and remove return false, and
\* none of them raises.
C15_ErrorsDegrade ==
    \A i \in 1..Len(hist) :
        hist[i].failed
        => /\ ~hist[i].raised
           /\ hist[i].op = "read_user_ids" => hist[i].users = <<>>
           /\ hist[i].op \in {"save_user_id", "remove_user_id"} => ~hist[i].ret

\* C20 (as claimed): whenever add or remove returns false, whatever the reason,
\* the persisted membership is what it was before the call.
C20_FalseKeepsMembership ==
    \A i \in 1..Len(hist) :
        (hist[i].op \in {"save_user_id", "remove_user_id"} /\ ~hist[i].ret)
        => hist[i].after = hist[i].before

====
